---- MODULE Spec2Model ----
(***************************************************************************)
(* State-machine model of the web admin backend of the screen-lock agents: *)
(* the policy store and the policy resolver (policies/), device presence   *)
(* and the device action records (devices/), and the lockout guard.        *)
(*                                                                         *)
(* Each subsystem has its own specification over the shared variables:     *)
(*   SpecPolicy    policy store writes and the resolver (device_policy)    *)
(*   SpecNumeric   the numeric policy fields on the API and dashboard paths *)
(*   SpecReplace   the dashboard replacement of a policy's assignments      *)
(*   SpecAssign    assignment creations and replacements run concurrently  *)
(*   SpecResolve   the resolver under assignment writes                      *)
(*   SpecActivation activation, retargeting and deletion of stored rows    *)
(*   SpecPresence  heartbeats, the clock and Device.is_online              *)
(*   SpecHeartbeat heartbeats handled concurrently                         *)
(*   SpecFrame     heartbeats beside deactivation requests                 *)
(*   SpecAction    DeviceAction records and the operations that move them  *)
(*   LiveAction    SpecAction with the clock weakly fair                   *)
(*   SpecRequest   the lock / unlock / screenshot / restart endpoints      *)
(*   SpecRegister  device registration                                      *)
(*   SpecCreate    action creation on activated and deactivated devices    *)
(*   SpecLockout   the lockout guard                                       *)
(* A specification leaves the variables of the other subsystems unchanged. *)
(***************************************************************************)
EXTENDS Integers, Sequences, FiniteSets, TLC

None == "none"                       \* Python None / SQL NULL, where a name is expected
NoPolicy == 0                        \* effective_policy None (primary keys start at 1)

Devices == {"D1", "D2"}
Groups  == {"G1", "G2"}

\* ---- bounds of the model ----
MaxPolicies    == 3
MaxAssignments == 2
MaxTime        == 6      \* the clock of SpecPresence stops here
MaxActions     == 2
MaxActionTime  == 1      \* the clock of SpecAction and SpecRequest stops here
MaxLockoutTime == 15     \* the clock of SpecLockout is not advanced from here on
MaxAttempts    == 5      \* rows of the unlock_attempts table
MaxHeartbeats  == 2      \* rows of the device_heartbeats table
MaxInFlight    == 2      \* heartbeat requests in progress at one time
MaxHeartbeatTime == 1    \* the clock of SpecHeartbeat stops here
MaxWrittenPolicies == 2  \* rows of the policies table in SpecNumeric
MaxWorkers     == 2      \* assignment requests in progress at one time
MaxDeviceRows  == 3      \* rows of the devices table in SpecRegister

NoTime == 0 - 1                      \* a DateTimeField that is NULL

\* Policy.SCOPE_CHOICES
SCOPE_CHOICES == {"global", "group", "device"}
\* the (scope, priority) pairs a policy is created with (Policy.priority is any
\* integer): priorities tie within a tier when a pair is used twice, and run
\* against the order of the tiers when a lower pair is assigned to a higher tier
PolicyInputs ==
    { <<"global", 1>>, <<"group", 5>>, <<"device", 0>> }

\* defaults of the Policy fields
DefaultIdleTimeoutSeconds  == 300
DefaultMaxUnlockAttempts   == 3
DefaultLockoutMinutes      == 15
DefaultHeartbeatSeconds    == 60

VARIABLES
    policies,         \* table policies: sequence of rows, the index is the primary key
    assignments,      \* table policy_assignments: set of rows
    group_devices,    \* DeviceGroup.devices (many-to-many): group -> set of devices
    policy_response,  \* the last answer of device_policy on the present store, or NoResponse
    assignment_requests  \* worker -> the assignment request it is handling, or Idle

VARIABLES
    now,              \* timezone.now(), in minutes
    devices           \* table devices: device -> row

VARIABLES
    failed_attempts,  \* lockout guard: device -> consecutive failed unlock attempts
    lockout_expiry,   \* lockout guard: device -> end of the lockout, or NoTime
    unlock_attempt,   \* the last unlock attempt and its outcome, or NoAttempt
    unlock_attempts   \* table unlock_attempts: the attempts and their outcomes, oldest first

VARIABLES
    actions,          \* table device_actions: sequence of rows, the index is the primary key
    api_response      \* the last answer of an action endpoint, or NoApiResponse

VARIABLES
    device_heartbeats,   \* table device_heartbeats: sequence of rows, oldest first
    heartbeat_requests   \* heartbeat requests between their assignments and device.save()

VARIABLES
    device_rows,      \* table devices as registration fills it: the index is the primary key
    device_tokens     \* table device_tokens: the primary keys of the devices that have a token

registry_vars == <<device_rows, device_tokens>>

policy_vars ==
    <<policies, assignments, group_devices, policy_response, assignment_requests>>

presence_vars == <<now, devices>>

action_vars == <<actions, api_response>>

lockout_vars == <<failed_attempts, lockout_expiry, unlock_attempt, unlock_attempts>>

heartbeat_vars == <<device_heartbeats, heartbeat_requests>>

vars == <<policies, assignments, group_devices, policy_response,
          assignment_requests, now, devices,
          actions, api_response, failed_attempts, lockout_expiry, unlock_attempt,
          unlock_attempts, device_heartbeats, heartbeat_requests,
          device_rows, device_tokens>>

\* no answer of device_policy on the present store yet
NoResponse ==
    [device |-> None, status_code |-> 0, effective_policy |-> NoPolicy,
     applied_policies |-> << >>]

\* no answer of an action endpoint yet
NoApiResponse ==
    [view |-> None, user |-> None, device |-> None, status_code |-> 0, action_id |-> 0]

\* the answer of an endpoint that carries no action id
ApiResponse(view, user, d, status_code) ==
    [view |-> view, user |-> user, device |-> d, status_code |-> status_code,
     action_id |-> 0]

\* the workers that handle assignment requests
Workers == 1..MaxWorkers

\* a worker that is handling no request
Idle == [view |-> None, policy |-> 0, targets |-> << >>, is_active |-> FALSE]

\* ------------------------------------------------------------------------
\* Policy store
\* ------------------------------------------------------------------------

\* A row of the policies table.  created_at (auto_now_add) is the creation
\* sequence number: later rows have later creation times.
Policy(scope, priority, is_active, created_at) ==
    [scope |-> scope, priority |-> priority, is_active |-> is_active,
     created_at |-> created_at,
     idle_timeout_seconds |-> DefaultIdleTimeoutSeconds,
     max_unlock_attempts |-> DefaultMaxUnlockAttempts,
     lockout_duration_minutes |-> DefaultLockoutMinutes,
     heartbeat_interval_seconds |-> DefaultHeartbeatSeconds]

\* the place of a deleted row: primary keys are never reused
DeletedPolicy == Policy(None, 0, FALSE, 0)

\* the primary keys of the stored policies
PolicyIds == { p \in DOMAIN policies : policies[p] # DeletedPolicy }

\* A row of the policy_assignments table.
PolicyAssignment(policy, device, device_group, is_active) ==
    [policy |-> policy, device |-> device, device_group |-> device_group,
     is_active |-> is_active]

\* PolicyAssignment.Meta.unique_together: (policy, device), (policy, device_group);
\* NULLs never collide.
unique_together(row) ==
    \A a \in assignments :
        /\ ~(a.policy = row.policy /\ row.device # None /\ a.device = row.device)
        /\ ~(a.policy = row.policy /\ row.device_group # None
                /\ a.device_group = row.device_group)

\* a plausible slip: the constraint on (policy, device_group) left out
UniqueInPolicyDevice(rows, row) ==
    \A a \in rows :
        ~(a.policy = row.policy /\ row.device # None /\ a.device = row.device)

\* the unique constraints of the table on a row coming into the rows `rows`
UniqueIn(rows, row) ==
    \A a \in rows :
        /\ ~(a.policy = row.policy /\ row.device # None /\ a.device = row.device)
        /\ ~(a.policy = row.policy /\ row.device_group # None
                /\ a.device_group = row.device_group)

\* PolicyAssignmentCreateSerializer.validate: exactly one target.
validate(device, device_group) ==
    /\ ~(device = None /\ device_group = None)
    /\ ~(device # None /\ device_group # None)

\* PolicyListCreateView POST (PolicyCreateUpdateSerializer).
PolicyCreate ==
    /\ Len(policies) < MaxPolicies
    /\ \E in \in PolicyInputs :
          /\ in[1] \in SCOPE_CHOICES
          /\ policies' = Append(policies,
                                Policy(in[1], in[2], TRUE, Len(policies) + 1))
    /\ policy_response' = NoResponse
    /\ UNCHANGED <<assignments, group_devices>>

\* PolicyAssignmentListCreateView POST (PolicyAssignmentCreateSerializer).
PolicyAssignmentCreate ==
    /\ Cardinality(assignments) < MaxAssignments
    /\ \E p \in PolicyIds, device \in Devices \cup {None},
          device_group \in Groups \cup {None} :
          LET row == PolicyAssignment(p, device, device_group, TRUE) IN
          /\ validate(device, device_group)
          /\ unique_together(row)
          /\ assignments' = assignments \cup {row}
    /\ policy_response' = NoResponse
    /\ UNCHANGED <<policies, group_devices>>

\* PolicyAssignmentDetailView DELETE.
PolicyAssignmentDelete ==
    /\ \E a \in assignments : assignments' = assignments \ {a}
    /\ policy_response' = NoResponse
    /\ UNCHANGED <<policies, group_devices>>

\* PolicyDetailView PUT / PATCH (PolicyCreateUpdateSerializer): a request that
\* changes is_active alone.
PolicyUpdate ==
    /\ \E p \in PolicyIds, is_active \in BOOLEAN :
          /\ is_active # policies[p].is_active
          /\ policies' = [policies EXCEPT ![p].is_active = is_active]
    /\ policy_response' = NoResponse
    /\ UNCHANGED <<assignments, group_devices>>

\* PolicyAssignmentDetailView PUT / PATCH (PolicyAssignmentSerializer): policy
\* and device are read-only, device_group and is_active are writable and no
\* validate() is declared; the unique constraints of the table apply.
PolicyAssignmentUpdate ==
    /\ \E a \in assignments, device_group \in Groups \cup {None},
          is_active \in BOOLEAN :
          LET row == [a EXCEPT !.device_group = device_group,
                               !.is_active = is_active] IN
          /\ row # a
          /\ \A b \in assignments \ {a} :
                /\ ~(b.policy = row.policy /\ row.device # None
                        /\ b.device = row.device)
                /\ ~(b.policy = row.policy /\ row.device_group # None
                        /\ b.device_group = row.device_group)
          /\ assignments' = (assignments \ {a}) \cup {row}
    /\ policy_response' = NoResponse
    /\ UNCHANGED <<policies, group_devices>>

\* PolicyDetailView DELETE, dashboard api_policy_detail DELETE: policy.delete().
\* PolicyAssignment.policy is a ForeignKey with on_delete=CASCADE: the rows
\* that reference the policy are deleted with it.
PolicyDelete ==
    /\ \E p \in PolicyIds :
          /\ policies' = [policies EXCEPT ![p] = DeletedPolicy]
          /\ assignments' = { a \in assignments : a.policy # p }
    /\ policy_response' = NoResponse
    /\ UNCHANGED group_devices

\* ------------------------------------------------------------------------
\* Policy store: the numeric fields on the four write paths
\* ------------------------------------------------------------------------

\* MinValueValidator / MaxValueValidator of the Policy fields
FieldRange ==
    [idle_timeout_seconds |-> 30..86400,
     max_unlock_attempts |-> 1..10,
     lockout_duration_minutes |-> 1..1440,
     heartbeat_interval_seconds |-> 30..3600]

\* the (field, value) a write request carries: a value just outside the range
\* of each field, and the two ends of the range of max_unlock_attempts
NumericInputs ==
    { <<"idle_timeout_seconds", 29>>,
      <<"max_unlock_attempts", 0>>, <<"max_unlock_attempts", 1>>,
      <<"max_unlock_attempts", 10>>, <<"max_unlock_attempts", 11>>,
      <<"lockout_duration_minutes", 1441>>,
      <<"heartbeat_interval_seconds", 3601>> }

\* serializer.is_valid() of PolicyCreateUpdateSerializer: a ModelSerializer
\* runs the validators of the model fields
is_valid(in) == in[2] \in FieldRange[in[1]]

\* a new global policy with one numeric field given
PolicyWith(in) ==
    [Policy("global", 1, TRUE, Len(policies) + 1) EXCEPT ![in[1]] = in[2]]

\* PolicyListCreateView POST with a numeric field in the body: 400 when the
\* serializer rejects the value, else the row is created.
PolicyListCreateView_post ==
    /\ \E in \in NumericInputs :
          IF ~is_valid(in)
          THEN /\ api_response' = ApiResponse("PolicyListCreateView", None, None, 400)
               /\ UNCHANGED policies
          ELSE /\ Len(policies) < MaxWrittenPolicies
               /\ policies' = Append(policies, PolicyWith(in))
               /\ api_response' = ApiResponse("PolicyListCreateView", None, None, 201)
    /\ policy_response' = NoResponse
    /\ UNCHANGED <<assignments, group_devices>>

\* PolicyDetailView PUT / PATCH with a numeric field in the body.
PolicyDetailView_put ==
    /\ \E p \in PolicyIds, in \in NumericInputs :
          IF ~is_valid(in)
          THEN /\ api_response' = ApiResponse("PolicyDetailView", None, None, 400)
               /\ UNCHANGED policies
          ELSE /\ policies' = [policies EXCEPT ![p][in[1]] = in[2]]
               /\ api_response' = ApiResponse("PolicyDetailView", None, None, 200)
    /\ policy_response' = NoResponse
    /\ UNCHANGED <<assignments, group_devices>>

\* dashboard api_policies_list POST: Policy.objects.create(...) with the values
\* of the body; Model.save() does not run the field validators.
api_policies_list ==
    /\ Len(policies) < MaxWrittenPolicies
    /\ \E in \in NumericInputs :
          policies' = Append(policies, PolicyWith(in))
    /\ api_response' = ApiResponse("api_policies_list", None, None, 200)
    /\ policy_response' = NoResponse
    /\ UNCHANGED <<assignments, group_devices>>

\* dashboard api_policy_detail PUT: the fields of the body assigned, then
\* policy.save(); 404 for an unknown policy_id.
api_policy_detail ==
    /\ \E policy_id \in 1..MaxWrittenPolicies, in \in NumericInputs :
          IF policy_id \notin PolicyIds
          THEN /\ api_response' = ApiResponse("api_policy_detail", None, None, 404)
               /\ UNCHANGED policies
          ELSE /\ policies' = [policies EXCEPT ![policy_id][in[1]] = in[2]]
               /\ api_response' = ApiResponse("api_policy_detail", None, None, 200)
    /\ policy_response' = NoResponse
    /\ UNCHANGED <<assignments, group_devices>>

\* C21: every stored policy has idle timeout in 30..86400 seconds, max unlock
\* attempts in 1..10, lockout duration in 1..1440 minutes and heartbeat
\* interval in 30..3600 seconds.
C21_NumericFieldsInRange ==
    \A p \in PolicyIds :
        /\ policies[p].idle_timeout_seconds \in 30..86400
        /\ policies[p].max_unlock_attempts \in 1..10
        /\ policies[p].lockout_duration_minutes \in 1..1440
        /\ policies[p].heartbeat_interval_seconds \in 30..3600

NumericNext ==
    \/ PolicyListCreateView_post
    \/ PolicyDetailView_put
    \/ api_policies_list
    \/ api_policy_detail

\* ------------------------------------------------------------------------
\* Policy resolver: device_policy
\* ------------------------------------------------------------------------

\* The rows a queryset may yield under order_by('-priority') alone: every
\* enumeration of the rows with the priority non-increasing.  The database
\* leaves the order of rows with equal priority unspecified.
OrderByPriority(rows, priority) ==
    { s \in [1..Cardinality(rows) -> rows] :
        \A i, j \in 1..Cardinality(rows) :
            i < j => (s[i] # s[j] /\ priority[s[i]] >= priority[s[j]]) }

AssignmentPriority == [a \in assignments |-> policies[a.policy].priority]
PolicyPriority     == [p \in PolicyIds |-> policies[p].priority]

\* PolicyAssignment.objects.filter(device=device, is_active=True, policy__is_active=True)
device_policies(device) ==
    { a \in assignments :
        a.device = device /\ a.is_active /\ policies[a.policy].is_active }

\* a plausible slip: the rows of every group, whether or not the device is in it
group_policies_of_any_group(device) ==
    { a \in assignments :
        /\ a.device_group # None
        /\ a.is_active /\ policies[a.policy].is_active }

\* PolicyAssignment.objects.filter(device_group__devices=device, is_active=True, ...)
group_policies(device) ==
    { a \in assignments :
        /\ a.device_group # None
        /\ device \in group_devices[a.device_group]
        /\ a.is_active /\ policies[a.policy].is_active }

\* Policy.objects.filter(scope='global', is_active=True)
global_policies ==
    { p \in PolicyIds : policies[p].scope = "global" /\ policies[p].is_active }

InList(x, list) == \E i \in DOMAIN list : list[i] = x

\* a plausible slip: the membership test left out
AppendAll(list, more) == list \o more

\* "for x in more: if x not in all_policies: all_policies.append(x)"
RECURSIVE AppendNew(_, _)
AppendNew(list, more) ==
    IF more = << >> THEN list
    ELSE AppendNew(IF InList(Head(more), list) THEN list
                   ELSE Append(list, Head(more)),
                   Tail(more))

PoliciesOf(rows) == [i \in DOMAIN rows |-> rows[i].policy]

\* a plausible slip: the global tier left out
all_policies_assigned_only(dev, grp, glob) ==
    AppendNew(PoliciesOf(dev), PoliciesOf(grp))

\* a plausible slip: the tiers concatenated lowest first
all_policies_global_first(dev, grp, glob) ==
    AppendNew(AppendNew(glob, PoliciesOf(grp)), PoliciesOf(dev))

\* all_policies: the device rows as they come, then the group rows and the
\* global policies not yet in the list.
all_policies(dev, grp, glob) ==
    AppendNew(AppendNew(PoliciesOf(dev), PoliciesOf(grp)), glob)

Response(device, list) ==
    [device |-> device,
     status_code |-> 200,
     effective_policy |-> IF list # << >> THEN list[1] ELSE NoPolicy,
     applied_policies |-> list]

\* GET device_policy for an existing device.
device_policy ==
    /\ \E device \in Devices :
       \E dev \in OrderByPriority(device_policies(device), AssignmentPriority),
          grp \in OrderByPriority(group_policies(device), AssignmentPriority),
          glob \in OrderByPriority(global_policies, PolicyPriority) :
            policy_response' = Response(device, all_policies(dev, grp, glob))
    /\ UNCHANGED <<policies, assignments, group_devices>>

\* ------------------------------------------------------------------------
\* Properties of the resolver
\* ------------------------------------------------------------------------

\* The policies of each tier for a device.
DeviceTier(device) == { a.policy : a \in device_policies(device) }
GroupTier(device)  == { a.policy : a \in group_policies(device) }
GlobalTier         == global_policies

\* The highest tier a policy reaches the device by: 1 device, 2 group, 3 global.
TierOf(device, p) ==
    IF p \in DeviceTier(device) THEN 1
    ELSE IF p \in GroupTier(device) THEN 2 ELSE 3

\* The stores of the scenario: D1 without assignments; global P0 (priority 1);
\* P1 (priority 5) assigned to D1's group G1; P2 (priority 0) assigned to D1.
ScenarioP0 == Policy("global", 1, TRUE, 1)
ScenarioP1 == Policy("group", 5, TRUE, 2)
ScenarioP2 == Policy("device", 0, TRUE, 3)
ScenarioStage0 == policies = << >> /\ assignments = {}
ScenarioStage1 == policies = <<ScenarioP0>> /\ assignments = {}
ScenarioStage2 ==
    /\ policies = <<ScenarioP0, ScenarioP1>>
    /\ assignments = {PolicyAssignment(2, None, "G1", TRUE)}
ScenarioStage3 ==
    /\ policies = <<ScenarioP0, ScenarioP1, ScenarioP2>>
    /\ assignments = {PolicyAssignment(2, None, "G1", TRUE),
                      PolicyAssignment(3, "D1", None, TRUE)}

\* C1: the effective policy of an answer comes from the highest non-empty tier
\* (device, then group, then global) whatever the priorities across tiers, and
\* is null when all tiers are empty; in the scenario the effective policy of D1
\* is null, P0, P1, P2 in turn.
C1_TierPrecedence ==
    policy_response.device # None =>
        LET d == policy_response.device
            e == policy_response.effective_policy
        IN  /\ DeviceTier(d) # {} => e \in DeviceTier(d)
            /\ (DeviceTier(d) = {} /\ GroupTier(d) # {}) => e \in GroupTier(d)
            /\ (DeviceTier(d) = {} /\ GroupTier(d) = {} /\ GlobalTier # {})
                  => e \in GlobalTier
            /\ (DeviceTier(d) = {} /\ GroupTier(d) = {} /\ GlobalTier = {})
                  => e = NoPolicy
            /\ (d = "D1" /\ ScenarioStage0) => e = NoPolicy
            /\ (d = "D1" /\ ScenarioStage1) => e = 1
            /\ (d = "D1" /\ ScenarioStage2) => e = 2
            /\ (d = "D1" /\ ScenarioStage3) => e = 3

\* Witness of C1: the last store of the scenario resolved for D1, where the
\* device-tier policy of priority 0 is effective over priorities 5 and 1.
C1_Witness ==
    /\ policy_response.device # None
    /\ policy_response.device = "D1"
    /\ ScenarioStage3
    /\ policy_response.applied_policies = <<3, 2, 1>>

\* C2: in an answer, of two policies of the same tier with equal priority the
\* more recently created one comes first in applied_policies.
C2_TieBreakNewestFirst ==
    policy_response.device # None =>
        LET d == policy_response.device
            l == policy_response.applied_policies
        IN  \A i, j \in DOMAIN l :
                (/\ i < j
                 /\ TierOf(d, l[i]) = TierOf(d, l[j])
                 /\ policies[l[i]].priority = policies[l[j]].priority)
                => policies[l[i]].created_at > policies[l[j]].created_at

\* C3: two answers for the same device over an unchanged store are equal
\* (every store write clears policy_response, so two answers in a row are
\* answers over the same store).
C3_ResolverDeterministic ==
    [][(/\ policy_response.device # None
        /\ policy_response'.device # None
        /\ policy_response'.device = policy_response.device)
       => policy_response' = policy_response]_vars

\* C14: applied_policies of an answer holds every policy that reaches the
\* device by some route exactly once, the policies of a higher tier before
\* those whose highest tier is lower, and the effective policy is its first
\* element.
C14_AppliedPoliciesDeduplicated ==
    policy_response.device # None =>
        LET d == policy_response.device
            l == policy_response.applied_policies
        IN  /\ \A i, j \in DOMAIN l : i # j => l[i] # l[j]
            /\ { l[i] : i \in DOMAIN l } =
                  DeviceTier(d) \cup GroupTier(d) \cup GlobalTier
            /\ \A i, j \in DOMAIN l : i < j => TierOf(d, l[i]) <= TierOf(d, l[j])
            /\ l # << >> => policy_response.effective_policy = l[1]

\* Witness of C14: the global policy 1 is also assigned to D1 and to its group
\* G1; policy 2 is global only; the answer for D1 lists policy 1 once, first.
C14_Witness ==
    /\ policy_response.device # None
    /\ policy_response.device = "D1"
    /\ Len(policies) >= 2
    /\ policies[1].scope = "global" /\ policies[2].scope = "global"
    /\ assignments = {PolicyAssignment(1, "D1", None, TRUE),
                      PolicyAssignment(1, None, "G1", TRUE)}
    /\ policy_response.applied_policies[1] = 1
    /\ policy_response.effective_policy = 1
    /\ Len(policy_response.applied_policies) = Cardinality(global_policies)

\* the device has an active assignment to itself or to one of its groups, or
\* an active global-scope policy exists, whether or not the assigned policy is
\* active
HasActiveRoute(d) ==
    \/ \E a \in assignments : a.is_active /\ a.device = d
    \/ \E a \in assignments :
          a.is_active /\ a.device_group # None /\ d \in group_devices[a.device_group]
    \/ \E p \in PolicyIds : policies[p].scope = "global" /\ policies[p].is_active

\* C15 as stated: the answer is null with an empty list, as a normal result,
\* for a device with no active direct assignment, no active assignment to any
\* of its groups and no active global-scope policy, and non-null for every
\* other device.
C15_NullIffNoActiveRoute ==
    policy_response.device # None =>
        LET d == policy_response.device IN
        /\ policy_response.status_code = 200
        /\ ~HasActiveRoute(d) => (/\ policy_response.effective_policy = NoPolicy
                                  /\ policy_response.applied_policies = << >>)
        /\ HasActiveRoute(d) => policy_response.effective_policy # NoPolicy

\* C15 amended: the answer is null with an empty list, as a normal result,
\* exactly for a device with no active assignment of an active policy, to
\* itself or to one of its groups, and no active global-scope policy.
C15_NullIffNoCandidate ==
    policy_response.device # None =>
        LET d == policy_response.device
            candidates == DeviceTier(d) \cup GroupTier(d) \cup GlobalTier
        IN  /\ policy_response.status_code = 200
            /\ candidates = {} => (/\ policy_response.effective_policy = NoPolicy
                                   /\ policy_response.applied_policies = << >>)
            /\ candidates # {} => policy_response.effective_policy \in candidates

\* Witness of C15: D1's only route is an active assignment of a deactivated
\* policy; the answer for D1 is null with an empty list.
C15_Witness ==
    /\ policy_response.device # None
    /\ policy_response.device = "D1"
    /\ policy_response.status_code = 200
    /\ \E a \in assignments :
          a.is_active /\ a.device = "D1" /\ ~policies[a.policy].is_active
    /\ DeviceTier("D1") \cup GroupTier("D1") \cup GlobalTier = {}
    /\ policy_response.effective_policy = NoPolicy
    /\ policy_response.applied_policies = << >>

\* the answers device_policy may give for a device on the present store
Responses(device) ==
    { Response(device, all_policies(dev, grp, glob)) :
        dev \in OrderByPriority(device_policies(device), AssignmentPriority),
        grp \in OrderByPriority(group_policies(device), AssignmentPriority),
        glob \in OrderByPriority(global_policies, PolicyPriority) }

\* the target of the row is another device or a group the device is not in
Foreign(a, d) ==
    /\ a.device # d
    /\ a.device_group # None => d \notin group_devices[a.device_group]
    /\ ~(a.device = None /\ a.device_group = None)

\* the step creates, changes or deletes only assignments that are foreign to d
ForeignStep(d) ==
    /\ assignments' # assignments
    /\ policies' = policies
    /\ \A a \in (assignments \ assignments') \cup (assignments' \ assignments) :
          Foreign(a, d)

\* C26: every policy in applied_policies of an answer is active and reaches
\* the device by an active assignment to the device, by an active assignment
\* to a group the device is in, or by global scope; and a step that creates,
\* changes or deletes only assignments to other devices or to groups the
\* device is not in leaves the answers for the device as they were.
C26_OnlyOwnRoutesApply ==
    /\ [](policy_response.device # None =>
            LET d == policy_response.device
                l == policy_response.applied_policies
            IN  \A i \in DOMAIN l :
                  /\ policies[l[i]].is_active
                  /\ \/ \E a \in assignments :
                          /\ a.policy = l[i] /\ a.is_active
                          /\ \/ a.device = d
                             \/ /\ a.device_group # None
                                /\ d \in group_devices[a.device_group]
                     \/ policies[l[i]].scope = "global")
    /\ [][\A d \in Devices : ForeignStep(d) => Responses(d)' = Responses(d)]_vars

\* Witness of C26: policy 2 is assigned to G1, which D2 is not in, and to D2;
\* the answer for D2 is policy 2, then the global policy 1.
C26_Witness ==
    /\ policy_response.device # None
    /\ policy_response.device = "D2"
    /\ assignments = {PolicyAssignment(2, None, "G1", TRUE),
                      PolicyAssignment(2, "D2", None, TRUE)}
    /\ policy_response.applied_policies = <<2, 1>>

\* C19: every stored assignment has exactly one target: device or
\* device_group is set, never both and never neither.
C19_ExactlyOneTarget ==
    \A a \in assignments :
        /\ ~(a.device # None /\ a.device_group # None)
        /\ ~(a.device = None /\ a.device_group = None)

\* C20: no step removes a policy that an active assignment references, and a
\* step that removes a policy leaves the assignments as they are.
C20_ReferencedPolicyNotDeleted ==
    [][\A p \in PolicyIds :
          p \notin PolicyIds' =>
            /\ ~\E a \in assignments : a.policy = p /\ a.is_active
            /\ assignments' = assignments]_vars

\* ------------------------------------------------------------------------
\* Devices: presence
\* ------------------------------------------------------------------------

\* timedelta(minutes=5) of Device.is_online
OnlineMinutes == 5

\* the (status, is_locked) pairs an agent reports in a heartbeat
HeartbeatInputs == {"online", "error"} \X BOOLEAN

\* A freshly registered device: the defaults of the Device fields.
NewDevice ==
    [status |-> "offline", is_locked |-> FALSE, last_seen |-> NoTime,
     last_lock_time |-> NoTime, last_unlock_time |-> NoTime, is_active |-> TRUE]

\* a plausible slip: the boundary included
is_online_inclusive(d) ==
    IF devices[d].last_seen = NoTime THEN FALSE
    ELSE now - devices[d].last_seen <= OnlineMinutes

\* Device.is_online
is_online(d) ==
    IF devices[d].last_seen = NoTime THEN FALSE
    ELSE now - devices[d].last_seen < OnlineMinutes

\* the clock advances by one minute, up to the limit of the specification
Tick(limit) ==
    /\ now < limit
    /\ now' = now + 1
    /\ UNCHANGED devices

\* a device_id no registered device has
UnknownDevice == "D0"

\* a plausible slip: the view calling Device.update_heartbeat, which sets
\* last_seen and status = 'online' and leaves is_locked alone
update_heartbeat(d, in) ==
    [devices[d] EXCEPT !.status = "online", !.last_seen = now]

\* The Device instance of a heartbeat request after its three assignments: the
\* row as get_object_or_404 read it, with status, is_locked and last_seen set.
HeartbeatInstance(d, in) ==
    [devices[d] EXCEPT !.status = in[1], !.is_locked = in[2], !.last_seen = now]

\* A row of the device_heartbeats table.
DeviceHeartbeat(d, in) == [device |-> d, status |-> in[1], is_locked |-> in[2]]

\* a plausible slip: the heartbeat row written before the device is looked up
device_heartbeats_recorded_first(device_id) ==
    Append(device_heartbeats, DeviceHeartbeat(device_id, <<"online", FALSE>>))

\* the device_heartbeats table after get_object_or_404 raised Http404: the
\* view has written nothing yet
device_heartbeats_not_found(device_id) == device_heartbeats

\* POST device_heartbeat, the request handled from start to end with no other
\* request in between: 404 for an unknown device_id, 400 for a body the
\* serializer rejects, else the device row saved and a heartbeat row created.
device_heartbeat ==
    \E device_id \in Devices \cup {UnknownDevice} :
        IF device_id \notin Devices
        THEN /\ api_response' = ApiResponse("device_heartbeat", None, device_id, 404)
             /\ device_heartbeats' = device_heartbeats_not_found(device_id)
             /\ UNCHANGED <<now, devices>>
        ELSE \/ /\ api_response' =
                     ApiResponse("device_heartbeat", None, device_id, 400)
                /\ UNCHANGED <<now, devices, device_heartbeats>>
             \/ \E in \in HeartbeatInputs :
                  /\ Len(device_heartbeats) < MaxHeartbeats
                  /\ devices' =
                        [devices EXCEPT ![device_id] = HeartbeatInstance(device_id, in)]
                  /\ device_heartbeats' =
                        Append(device_heartbeats, DeviceHeartbeat(device_id, in))
                  /\ api_response' =
                        ApiResponse("device_heartbeat", None, device_id, 200)
                  /\ UNCHANGED now

DeviceInit ==
    /\ now = 0
    /\ devices = [d \in Devices |-> NewDevice]
    /\ device_heartbeats = << >>
    /\ heartbeat_requests = {}
    /\ device_rows = << >>
    /\ device_tokens = {}

PresenceNext ==
    \/ (device_heartbeat
          /\ UNCHANGED <<policy_vars, actions, lockout_vars, heartbeat_requests, registry_vars>>)
    \/ (Tick(MaxTime) /\ UNCHANGED <<policy_vars, action_vars, lockout_vars, heartbeat_vars, registry_vars>>)

\* C7: a device is online exactly when last_seen is set and less than 5
\* minutes old; a last_seen exactly 5 minutes old is offline.
C7_OnlineIffFresh ==
    \A d \in Devices :
        /\ is_online(d) <=>
              (devices[d].last_seen # NoTime /\ now - devices[d].last_seen < 5)
        /\ (devices[d].last_seen # NoTime /\ now - devices[d].last_seen = 5)
              => ~is_online(d)

\* Witness of C7: D1 was last seen exactly 5 minutes ago and is offline while
\* D2, last seen 4 minutes ago, is online.
C7_Witness ==
    /\ devices["D1"].last_seen # NoTime /\ now - devices["D1"].last_seen = 5
    /\ ~is_online("D1")
    /\ devices["D2"].last_seen # NoTime /\ now - devices["D2"].last_seen = 4
    /\ is_online("D2")

\* cutoff = timezone.now() - timedelta(minutes=5)
cutoff == now - OnlineMinutes

\* DeviceListCreateView.get_queryset with the parameter online: the rows with
\* last_seen >= cutoff, or with last_seen < cutoff; a NULL last_seen satisfies
\* neither comparison.
get_queryset(online) ==
    IF online
    THEN { d \in Devices : devices[d].last_seen # NoTime /\ devices[d].last_seen >= cutoff }
    ELSE { d \in Devices : devices[d].last_seen # NoTime /\ devices[d].last_seen < cutoff }

\* device_stats, and system_status_api of the dashboard: the online and
\* offline counts
device_stats ==
    LET total_devices  == Cardinality(Devices)
        online_devices ==
            Cardinality({ d \in Devices :
                            devices[d].last_seen # NoTime /\ devices[d].last_seen >= cutoff })
    IN  [total_devices |-> total_devices, online_devices |-> online_devices,
         offline_devices |-> total_devices - online_devices]

\* C30: every place that classifies presence agrees with Device.is_online:
\* the list filter online=true returns exactly the online devices and
\* online=false exactly the others, each device being in exactly one of the
\* two, and the counts of device_stats are the numbers of online and of
\* offline devices.
C30_PresenceClassifiersAgree ==
    /\ get_queryset(TRUE) = { d \in Devices : is_online(d) }
    /\ get_queryset(FALSE) = { d \in Devices : ~is_online(d) }
    /\ get_queryset(TRUE) \cup get_queryset(FALSE) = Devices
    /\ get_queryset(TRUE) \cap get_queryset(FALSE) = {}
    /\ device_stats.online_devices = Cardinality({ d \in Devices : is_online(d) })
    /\ device_stats.offline_devices = Cardinality({ d \in Devices : ~is_online(d) })

\* the step is a heartbeat for device d that was accepted (answered 200)
Accepted(d) ==
    /\ Len(device_heartbeats') = Len(device_heartbeats) + 1
    /\ device_heartbeats'[Len(device_heartbeats')].device = d

C18_UnknownDeviceNotFound ==
    [][/\ (/\ api_response' # api_response
           /\ api_response'.view = "device_heartbeat"
           /\ api_response'.device \notin Devices)
          => (/\ api_response'.status_code = 404
              /\ devices' = devices
              /\ device_heartbeats' = device_heartbeats)
       /\ DOMAIN devices' = Devices
       /\ \A i \in DOMAIN device_heartbeats' :
             device_heartbeats'[i].device \in Devices]_vars

\* Witness of C18: after two accepted heartbeats a heartbeat for the unknown
\* id was answered 404.
C18_Witness ==
    /\ api_response = ApiResponse("device_heartbeat", None, UnknownDevice, 404)
    /\ Len(device_heartbeats) = 2
    /\ devices["D1"].last_seen # NoTime

\* ------------------------------------------------------------------------
\* Heartbeats handled concurrently
\* ------------------------------------------------------------------------
\* Each request runs in its own thread or worker process with its own Device
\* instance; the view takes no lock, opens no transaction and does not use
\* select_for_update.  A request is two steps: the read of the row and the
\* three assignments (last_seen = timezone.now()), then device.save(), which
\* writes every column of the instance, and the creation of the heartbeat row.

\* device_heartbeat up to device.save(): a valid request for a registered device
device_heartbeat_assign ==
    /\ Cardinality(heartbeat_requests) < MaxInFlight
    /\ \E d \in Devices, in \in HeartbeatInputs :
          LET request == [device |-> d, data |-> in,
                          instance |-> HeartbeatInstance(d, in)] IN
          /\ request \notin heartbeat_requests
          /\ heartbeat_requests' = heartbeat_requests \cup {request}
    /\ UNCHANGED <<now, devices, device_heartbeats, api_response>>

\* device_heartbeat from device.save() on
device_heartbeat_save ==
    /\ Len(device_heartbeats) < MaxHeartbeats
    /\ \E request \in heartbeat_requests :
          /\ devices' = [devices EXCEPT ![request.device] = request.instance]
          /\ device_heartbeats' =
                Append(device_heartbeats,
                       DeviceHeartbeat(request.device, request.data))
          /\ api_response' =
                ApiResponse("device_heartbeat", None, request.device, 200)
          /\ heartbeat_requests' = heartbeat_requests \ {request}
    /\ UNCHANGED now

\* C16: no step decreases the last_seen of a device.
C16_LastSeenNeverDecreases ==
    [][\A d \in Devices : devices'[d].last_seen >= devices[d].last_seen]_vars

HeartbeatNext ==
    \/ (device_heartbeat_assign /\ UNCHANGED <<policy_vars, actions, lockout_vars, registry_vars>>)
    \/ (device_heartbeat_save /\ UNCHANGED <<policy_vars, actions, lockout_vars, registry_vars>>)
    \/ (Tick(MaxHeartbeatTime)
          /\ UNCHANGED <<policy_vars, action_vars, lockout_vars, heartbeat_vars, registry_vars>>)

\* ------------------------------------------------------------------------
\* Device actions
\* ------------------------------------------------------------------------

\* User.ROLE_CHOICES; the model has one user of each role, named by the role
Users == {"superadmin", "security", "it_admin", "auditor", "unlock_user"}

\* the users whose requests create action records through the API in SpecAction
ActionCreators == {"it_admin", "unlock_user"}

\* DeviceAction.ACTION_TYPES: the four types the endpoints issue
ACTION_TYPES == {"lock", "unlock", "restart", "screenshot"}

\* DeviceAction.STATUS_CHOICES
STATUS_CHOICES ==
    {"pending", "sent", "acknowledged", "completed", "failed", "timeout"}

NonTerminal == {"pending", "sent", "acknowledged"}
Terminal    == {"completed", "failed", "timeout"}

\* A row of the device_actions table.
DeviceAction(d, action_type, initiated_by, status) ==
    [device |-> d, action_type |-> action_type, initiated_by |-> initiated_by,
     status |-> status, completed_at |-> NoTime]

ActionIds == DOMAIN actions

\* DeviceActionListCreateView POST (DeviceActionCreateSerializer): any
\* authenticated user; status takes its default, initiated_by is the caller.
DeviceActionCreate ==
    /\ Len(actions) < MaxActions
    /\ \E user \in ActionCreators, d \in Devices, action_type \in ACTION_TYPES :
          actions' = Append(actions, DeviceAction(d, action_type, user, "pending"))
    /\ UNCHANGED <<now, devices, api_response>>

\* DeviceActionDetailView PUT / PATCH (DeviceActionModelSerializer): status and
\* action_type are writable, completed_at is read-only.
DeviceActionUpdate ==
    /\ \E a \in ActionIds, status \in STATUS_CHOICES, action_type \in ACTION_TYPES :
          /\ <<status, action_type>> # <<actions[a].status, actions[a].action_type>>
          /\ actions' = [actions EXCEPT ![a].status = status,
                                        ![a].action_type = action_type]
    /\ UNCHANGED <<now, devices, api_response>>

\* DeviceAction.mark_completed
mark_completed ==
    /\ \E a \in ActionIds :
          actions' = [actions EXCEPT ![a].status = "completed",
                                     ![a].completed_at = now]
    /\ UNCHANGED <<now, devices, api_response>>

\* DeviceAction.mark_failed
mark_failed ==
    /\ \E a \in ActionIds :
          actions' = [actions EXCEPT ![a].status = "failed",
                                     ![a].completed_at = now]
    /\ UNCHANGED <<now, devices, api_response>>

\* the edges of the action state machine of the specification
ActionEdges ==
    { <<"pending", "sent">>, <<"sent", "acknowledged">>,
      <<"acknowledged", "completed">>, <<"acknowledged", "failed">>,
      <<"acknowledged", "timeout">>,
      <<"pending", "failed">>, <<"pending", "timeout">>,
      <<"sent", "failed">>, <<"sent", "timeout">> }

\* C4: once an action is completed, failed or timeout, no step changes its
\* status or its completed_at.
C4_TerminalImmutable ==
    [][\A a \in ActionIds :
          actions[a].status \in Terminal
          => (/\ actions'[a].status = actions[a].status
              /\ actions'[a].completed_at = actions[a].completed_at)]_vars

\* C5: for every device and action type at most one action is in a
\* non-terminal status.
C5_OneInFlightPerType ==
    \A d \in Devices, action_type \in ACTION_TYPES :
        Cardinality({ a \in ActionIds :
                        /\ actions[a].device = d
                        /\ actions[a].action_type = action_type
                        /\ actions[a].status \in NonTerminal }) <= 1

\* C8: every change of an action's status follows an edge of the machine
\* pending -> sent -> acknowledged -> {completed, failed, timeout}, with
\* pending and sent also moving to failed or timeout.
C8_ForwardEdgesOnly ==
    [][\A a \in ActionIds :
          actions'[a].status # actions[a].status
          => <<actions[a].status, actions'[a].status>> \in ActionEdges]_vars

\* C9: every created action eventually reaches a terminal status.
C9_EveryActionTerminates ==
    \A a \in 1..MaxActions :
        [](Len(actions) >= a
              => <>(Len(actions) >= a /\ actions[a].status \in Terminal))

\* C24: an action has completed_at set if and only if its status is
\* completed, failed or timeout.
C24_CompletedAtIffTerminal ==
    \A a \in ActionIds :
        (actions[a].completed_at # NoTime) <=> (actions[a].status \in Terminal)

\* C25: moving actions to timeout is idempotent and never overrides another
\* terminal transition: a step moves an action to timeout only from a
\* non-terminal status, and no step changes an action that is in timeout
\* (so each action is moved to timeout at most once and a repeated run
\* changes nothing).
C25_TimeoutOnceFromNonTerminal ==
    [][\A a \in ActionIds :
          /\ (actions'[a].status = "timeout" /\ actions[a].status # "timeout")
                => actions[a].status \in NonTerminal
          /\ actions[a].status = "timeout" => actions'[a] = actions[a]]_vars

ActionInit == actions = << >> /\ api_response = NoApiResponse

ActionNext ==
    \/ (DeviceActionCreate /\ UNCHANGED <<policy_vars, lockout_vars, heartbeat_vars, registry_vars>>)
    \/ (DeviceActionUpdate /\ UNCHANGED <<policy_vars, lockout_vars, heartbeat_vars, registry_vars>>)
    \/ (mark_completed /\ UNCHANGED <<policy_vars, lockout_vars, heartbeat_vars, registry_vars>>)
    \/ (mark_failed /\ UNCHANGED <<policy_vars, lockout_vars, heartbeat_vars, registry_vars>>)
    \/ (Tick(MaxActionTime) /\ UNCHANGED <<policy_vars, action_vars, lockout_vars, heartbeat_vars, registry_vars>>)

\* ------------------------------------------------------------------------
\* Action endpoints: device_lock, device_unlock, device_screenshot, device_restart
\* ------------------------------------------------------------------------

\* request.data.get('reason', <default>): a text (given or the default), or
\* None when the body carries "reason": null
ReasonInputs == {"text", None}

\* the roles each endpoint lets through ("Check permissions")
LockRoles       == {"superadmin", "security", "it_admin"}
UnlockRoles     == {"superadmin", "security", "it_admin"}
ScreenshotRoles == {"superadmin", "security", "it_admin", "auditor"}
RestartRoles    == {"superadmin", "it_admin"}

\* Device.lock_screen(reason, admin_user), up to the exception that ends it.
\* The device row is saved first.  DeviceAction.objects.create then raises
\* ValueError when admin_user is neither None nor a User; otherwise the action
\* row is stored, and Event.objects.create(details=...) raises TypeError (Event
\* has no field "details").  The method never returns normally.
lock_screen_devices(d) ==
    [devices EXCEPT ![d].is_locked = TRUE,
                    ![d].last_lock_time = now,
                    ![d].status = "locked"]

lock_screen_actions(d, admin_user) ==
    IF admin_user \in Users \cup {None}
    THEN Append(actions, DeviceAction(d, "lock", admin_user, "pending"))
    ELSE actions

\* POST device_lock.  The endpoint calls device.lock_screen(request.user, reason):
\* the caller arrives as reason and the reason text as admin_user.  The
\* exception is caught and answered 500; what was saved before it stays.
device_lock ==
    \E user \in Users, d \in Devices, reason \in ReasonInputs :
        IF user \notin LockRoles
        THEN /\ api_response' = ApiResponse("device_lock", user, d, 403)
             /\ UNCHANGED <<now, devices, actions>>
        ELSE /\ Len(lock_screen_actions(d, reason)) <= MaxActions
             /\ devices' = lock_screen_devices(d)
             /\ actions' = lock_screen_actions(d, reason)
             /\ api_response' = ApiResponse("device_lock", user, d, 500)
             /\ UNCHANGED now

\* POST device_unlock.  device.unlock_screen(request.user, reason) passes one
\* positional argument more than unlock_screen(self, admin_user=None) takes:
\* TypeError before the method runs, answered 500.
device_unlock ==
    /\ \E user \in Users, d \in Devices :
          api_response' = ApiResponse("device_unlock", user, d,
                                      IF user \notin UnlockRoles THEN 403 ELSE 500)
    /\ UNCHANGED <<now, devices, actions>>

\* POST device_screenshot: take_screenshot(self, admin_user=None) likewise.
device_screenshot ==
    /\ \E user \in Users, d \in Devices :
          api_response' = ApiResponse("device_screenshot", user, d,
                                      IF user \notin ScreenshotRoles THEN 403 ELSE 500)
    /\ UNCHANGED <<now, devices, actions>>

\* POST device_restart: restart_device(self, admin_user=None) likewise.
device_restart ==
    /\ \E user \in Users, d \in Devices :
          api_response' = ApiResponse("device_restart", user, d,
                                      IF user \notin RestartRoles THEN 403 ELSE 500)
    /\ UNCHANGED <<now, devices, actions>>

\* the action type an endpoint issues and the roles that hold the capability
ViewActionType ==
    [device_lock |-> "lock", device_unlock |-> "unlock",
     device_screenshot |-> "screenshot", device_restart |-> "restart"]
ViewRoles ==
    [device_lock |-> LockRoles, device_unlock |-> UnlockRoles,
     device_screenshot |-> ScreenshotRoles, device_restart |-> RestartRoles]

\* C10: the answer to a lock, unlock, screenshot or restart request of a caller
\* whose role holds the capability carries the identifier of an action of that
\* type for that device, in status pending, with the caller as initiator.
C10_RequestCreatesPendingAction ==
    (/\ api_response.view # None
     /\ api_response.user \in ViewRoles[api_response.view])
    => /\ api_response.status_code = 200
       /\ api_response.action_id \in ActionIds
       /\ actions[api_response.action_id] =
             DeviceAction(api_response.device, ViewActionType[api_response.view],
                          api_response.user, "pending")

\* the roles that hold the capability for each action type
TypeRoles ==
    [lock |-> LockRoles, unlock |-> UnlockRoles,
     screenshot |-> ScreenshotRoles, restart |-> RestartRoles]

\* C11: no action record has an initiator whose role lacks the capability for
\* the action's type, whichever endpoint created it.
C11_NoActionWithoutCapability ==
    \A a \in ActionIds :
        actions[a].initiated_by \in Users
        => actions[a].initiated_by \in TypeRoles[actions[a].action_type]

\* C27: a lock, unlock, screenshot or restart request answered with an error
\* status leaves the store as it was: the device rows (is_locked, status,
\* last_lock_time, last_unlock_time) are unchanged and no action record has
\* been created.
C27_ErrorLeavesStoreUnchanged ==
    [][(now' = now /\ api_response'.status_code >= 400)
          => (devices' = devices /\ actions' = actions)]_vars

RequestNext ==
    \/ (device_lock /\ UNCHANGED <<policy_vars, lockout_vars, heartbeat_vars, registry_vars>>)
    \/ (device_unlock /\ UNCHANGED <<policy_vars, lockout_vars, heartbeat_vars, registry_vars>>)
    \/ (device_screenshot /\ UNCHANGED <<policy_vars, lockout_vars, heartbeat_vars, registry_vars>>)
    \/ (device_restart /\ UNCHANGED <<policy_vars, lockout_vars, heartbeat_vars, registry_vars>>)
    \/ (Tick(MaxActionTime) /\ UNCHANGED <<policy_vars, action_vars, lockout_vars, heartbeat_vars, registry_vars>>)

\* ------------------------------------------------------------------------
\* Deactivated devices
\* ------------------------------------------------------------------------

\* DeviceDetailView PUT / PATCH (DeviceSerializer): is_active is writable; a
\* request that changes is_active alone.
DeviceUpdate ==
    /\ \E d \in Devices, is_active \in BOOLEAN :
          /\ is_active # devices[d].is_active
          /\ devices' = [devices EXCEPT ![d].is_active = is_active]
    /\ UNCHANGED <<now, actions, api_response>>

\* C12: no step creates an action for a device whose is_active is false or
\* changes that device's lock state, status or timestamps.
C12_InactiveDeviceUntouched ==
    [][\A d \in Devices :
          ~devices[d].is_active =>
            /\ \A a \in DOMAIN actions' \ DOMAIN actions : actions'[a].device # d
            /\ devices'[d].is_locked = devices[d].is_locked
            /\ devices'[d].status = devices[d].status
            /\ devices'[d].last_seen = devices[d].last_seen
            /\ devices'[d].last_lock_time = devices[d].last_lock_time
            /\ devices'[d].last_unlock_time = devices[d].last_unlock_time]_vars

CreateNext ==
    \/ (DeviceUpdate /\ UNCHANGED <<policy_vars, lockout_vars, heartbeat_vars, registry_vars>>)
    \/ (DeviceActionCreate /\ UNCHANGED <<policy_vars, lockout_vars, heartbeat_vars, registry_vars>>)
    \/ (device_lock /\ UNCHANGED <<policy_vars, lockout_vars, heartbeat_vars, registry_vars>>)

\* ------------------------------------------------------------------------
\* Heartbeats beside other writes of the device row
\* ------------------------------------------------------------------------

\* C28: a heartbeat changes only last_seen, is_locked and status of its
\* device: the step that saves a heartbeat leaves is_active, last_lock_time
\* and last_unlock_time of every device as another request wrote them.
C28_HeartbeatFrame ==
    [][device_heartbeats' # device_heartbeats =>
          \A d \in Devices :
              /\ devices'[d].is_active = devices[d].is_active
              /\ devices'[d].last_lock_time = devices[d].last_lock_time
              /\ devices'[d].last_unlock_time = devices[d].last_unlock_time]_vars

FrameNext ==
    \/ (device_heartbeat_assign /\ UNCHANGED <<policy_vars, actions, lockout_vars, registry_vars>>)
    \/ (device_heartbeat_save /\ UNCHANGED <<policy_vars, actions, lockout_vars, registry_vars>>)
    \/ (DeviceUpdate /\ UNCHANGED <<policy_vars, lockout_vars, heartbeat_vars, registry_vars>>)

\* ------------------------------------------------------------------------
\* Device registration: DeviceListCreateView POST
\* ------------------------------------------------------------------------

\* the hostnames and MAC addresses of the machines that register
Hostnames    == {"WORKSTATION-001", "LAPTOP-003"}
MacAddresses == {"00:00:00:00:00:01", "00:00:00:00:00:02"}

\* the values uuid.uuid4() may return
UUIDs == 1..MaxDeviceRows

\* A row of the devices table: the columns registration is about.
DeviceRow(device_id, hostname, mac_address) ==
    [device_id |-> device_id, hostname |-> hostname, mac_address |-> mac_address,
     is_active |-> TRUE]

\* DeviceListCreateView POST (DeviceCreateSerializer, perform_create).  The
\* serializer looks at no other row; device_id is the uuid4 default under a
\* unique constraint (IntegrityError, 500, when the database refuses it).
\* After serializer.save() the token is created.
DeviceCreate ==
    /\ \E hostname \in Hostnames, mac_address \in MacAddresses, device_id \in UUIDs :
          IF \E i \in DOMAIN device_rows : device_rows[i].device_id = device_id
          THEN /\ api_response' = ApiResponse("DeviceListCreateView", None, None, 500)
               /\ UNCHANGED <<device_rows, device_tokens>>
          ELSE /\ Len(device_rows) < MaxDeviceRows
               /\ device_rows' =
                     Append(device_rows, DeviceRow(device_id, hostname, mac_address))
               /\ device_tokens' = device_tokens \cup {Len(device_rows) + 1}
               /\ api_response' = ApiResponse("DeviceListCreateView", None, None, 201)

\* DeviceDetailView PUT / PATCH on a registered row: is_active changed.
DeviceRowUpdate ==
    /\ \E i \in DOMAIN device_rows, is_active \in BOOLEAN :
          /\ is_active # device_rows[i].is_active
          /\ device_rows' = [device_rows EXCEPT ![i].is_active = is_active]
    /\ UNCHANGED <<device_tokens, api_response>>

\* C23: every device has a device_id different from every other device's, and
\* no two active devices share a natural key (hostname, MAC): a registration
\* with the natural key of an active device creates no device and no token.
C23_NoDuplicateIdentity ==
    \A i, j \in DOMAIN device_rows :
        i # j =>
          /\ device_rows[i].device_id # device_rows[j].device_id
          /\ (device_rows[i].is_active /\ device_rows[j].is_active)
                => <<device_rows[i].hostname, device_rows[i].mac_address>>
                      # <<device_rows[j].hostname, device_rows[j].mac_address>>

RegisterNext ==
    \/ DeviceCreate
    \/ DeviceRowUpdate

\* ------------------------------------------------------------------------
\* Assignment writes: the dashboard replacement and concurrent requests
\* ------------------------------------------------------------------------
\* The settings set neither ATOMIC_REQUESTS nor a transaction around a view:
\* every statement (a DELETE, an INSERT) commits on its own, and the unique
\* constraints of the table are checked by the database at each INSERT and
\* UPDATE.

\* a group id no group has
UnknownGroup == "G0"

\* the "devices" and "groups" lists of a dashboard request: empty, one id, two
\* ids, the same id twice, an id that does not exist
DeviceIdLists ==
    { << >>, <<"D1">>, <<"D1", "D2">>, <<"D1", "D1">>, <<"D1", UnknownDevice>> }
GroupIdLists == { << >>, <<"G1">>, <<UnknownGroup>> }

\* the policy_id of a dashboard request: a stored policy, or an id no policy has
PolicyIdInputs == PolicyIds \cup {Len(policies) + 1}

\* the targets of a request in the order the view creates them: the devices,
\* then the groups
Targets(device_ids, group_ids) ==
    [i \in DOMAIN device_ids |-> <<"device", device_ids[i]>>]
        \o [i \in DOMAIN group_ids |-> <<"group", group_ids[i]>>]

\* Device.objects.get(id=...) / DeviceGroup.objects.get(id=...) finds a row
Exists(target) ==
    IF target[1] = "device" THEN target[2] \in Devices ELSE target[2] \in Groups

\* A row of the policy_assignments table with its primary key.
AssignmentRow(id, policy, target, is_active) ==
    [policy |-> policy,
     device |-> IF target[1] = "device" THEN target[2] ELSE None,
     device_group |-> IF target[1] = "group" THEN target[2] ELSE None,
     is_active |-> is_active,
     id |-> id]

\* The primary key of the next row.  The keys only tell rows apart that agree
\* in every other column, so the model numbers the rows among their equals:
\* the least number no equal row has.
NextId(rows, policy, target, is_active) ==
    CHOOSE n \in 1..(Cardinality(rows) + 1) :
        /\ AssignmentRow(n, policy, target, is_active) \notin rows
        /\ \A m \in 1..(n - 1) :
              AssignmentRow(m, policy, target, is_active) \in rows

\* the row an INSERT adds to the rows `rows`
NewRow(rows, policy, target, is_active) ==
    AssignmentRow(NextId(rows, policy, target, is_active), policy, target, is_active)

\* The two loops of api_policy_assignments over the rows `rows`: the targets
\* are created in turn until one raises (DoesNotExist for an unknown id,
\* IntegrityError for a unique constraint); the rows created before it stay.
RECURSIVE create_each(_, _, _)
create_each(rows, policy, targets) ==
    IF targets = << >> THEN [rows |-> rows, ok |-> TRUE]
    ELSE LET row == NewRow(rows, policy, Head(targets), TRUE) IN
         IF ~Exists(Head(targets)) \/ ~UniqueIn(rows, row)
         THEN [rows |-> rows, ok |-> FALSE]
         ELSE create_each(rows \cup {row}, policy, Tail(targets))

\* the worker that takes the next request: the first idle one (the workers
\* are interchangeable)
Takes(w) ==
    /\ assignment_requests[w] = Idle
    /\ \A v \in 1..(w - 1) : assignment_requests[v] # Idle

\* an assignment request as its worker holds it: the view, the policy id and
\* the targets still to be created
Request(view, policy, targets, is_active) ==
    [view |-> view, policy |-> policy, targets |-> targets, is_active |-> is_active]

\* dashboard api_policy_assignments POST, the request handled from start to
\* end with no other request in between: Policy.objects.get, the delete of the
\* policy's rows, the two loops; any exception is answered 400.  Worker 1
\* keeps the body of the request.
api_policy_assignments ==
    /\ \E policy_id \in PolicyIdInputs, device_ids \in DeviceIdLists,
          group_ids \in GroupIdLists :
          LET targets == Targets(device_ids, group_ids)
              cleared == { a \in assignments : a.policy # policy_id }
              result  == create_each(cleared, policy_id, targets)
          IN  /\ assignment_requests' =
                    [assignment_requests EXCEPT
                        ![1] = Request("api_policy_assignments", policy_id,
                                       targets, TRUE)]
              /\ IF policy_id \notin PolicyIds
                 THEN /\ api_response' =
                            ApiResponse("api_policy_assignments", None, None, 400)
                      /\ UNCHANGED assignments
                 ELSE /\ assignments' = result.rows
                      /\ api_response' =
                            ApiResponse("api_policy_assignments", None, None,
                                        IF result.ok THEN 200 ELSE 400)
    /\ policy_response' = NoResponse
    /\ UNCHANGED <<policies, group_devices>>

\* the rows of a policy, and the targets of rows
RowsOf(rows, p) == { a \in rows : a.policy = p }
TargetOf(a) ==
    IF a.device # None THEN <<"device", a.device>> ELSE <<"group", a.device_group>>

\* C29: a dashboard replacement is all-or-nothing.  A request answered with an
\* error leaves the policy's assignments exactly as they were before it; a
\* request answered with success leaves exactly one assignment per listed
\* device and per listed group.
C29_ReplaceAllOrNothing ==
    [][LET request == assignment_requests'[1]
           before  == RowsOf(assignments, request.policy)
           after   == RowsOf(assignments', request.policy)
           listed  == { request.targets[i] : i \in DOMAIN request.targets }
       IN  api_response'.view = "api_policy_assignments" =>
             /\ api_response'.status_code # 200 => after = before
             /\ api_response'.status_code = 200 =>
                   /\ { TargetOf(a) : a \in after } = listed
                   /\ Cardinality(after) = Cardinality(listed)
                   /\ \A a \in after :
                         ~(a.device # None /\ a.device_group # None)]_vars

\* the store of SpecReplace: the first two policies of the scenario, no rows
ReplaceInit ==
    /\ policies = <<ScenarioP0, ScenarioP1>>
    /\ assignments = {}
    /\ group_devices = [g \in Groups |-> IF g = "G1" THEN {"D1"} ELSE {"D1", "D2"}]
    /\ policy_response = NoResponse
    /\ assignment_requests = [w \in Workers |-> Idle]

ReplaceNext ==
    \/ api_policy_assignments

\* ---- the same requests handled by concurrent workers ----
\* A REST creation is two statements: the query of the serializer's
\* UniqueTogetherValidator (is_valid), then the INSERT (save).  A dashboard
\* replacement is the DELETE of the policy's rows, then one INSERT per target.
\* Between the statements of one request the other worker may run.

\* PolicyAssignmentListCreateView POST up to serializer.save(), is_active left
\* at its default: 400 when validate() or the unique-together validator
\* rejects the body.
PolicyAssignmentCreate_is_valid ==
    /\ \E w \in Workers, p \in PolicyIds, device \in Devices \cup {None},
          device_group \in Groups \cup {None} :
          LET is_active == TRUE
              target == IF device # None THEN <<"device", device>>
                           ELSE <<"group", device_group>>
              row == AssignmentRow(0, p, target, is_active)
          IN  /\ Takes(w)
              /\ IF validate(device, device_group) /\ UniqueIn(assignments, row)
                 THEN /\ assignment_requests' =
                            [assignment_requests EXCEPT
                                ![w] = Request("PolicyAssignmentListCreateView", p,
                                               <<target>>, is_active)]
                      /\ UNCHANGED api_response
                 ELSE /\ api_response' =
                            ApiResponse("PolicyAssignmentListCreateView", None, None, 400)
                      /\ UNCHANGED assignment_requests
    /\ UNCHANGED <<policies, assignments, group_devices, policy_response>>

\* PolicyAssignmentListCreateView POST from serializer.save() on: the INSERT;
\* the IntegrityError of a unique constraint is not caught (500).
PolicyAssignmentCreate_save ==
    /\ \E w \in Workers :
          LET request == assignment_requests[w]
              row == NewRow(assignments, request.policy, request.targets[1],
                            request.is_active)
          IN  /\ request.view = "PolicyAssignmentListCreateView"
              /\ IF UniqueIn(assignments, row)
                 THEN /\ assignments' = assignments \cup {row}
                      /\ api_response' =
                            ApiResponse("PolicyAssignmentListCreateView", None, None, 201)
                 ELSE /\ api_response' =
                            ApiResponse("PolicyAssignmentListCreateView", None, None, 500)
                      /\ UNCHANGED assignments
              /\ assignment_requests' = [assignment_requests EXCEPT ![w] = Idle]
    /\ policy_response' = NoResponse
    /\ UNCHANGED <<policies, group_devices>>

\* the "devices" and "groups" lists of the dashboard requests that run beside
\* other requests: empty, one id, the same id twice
RaceDeviceIdLists == { << >>, <<"D1">>, <<"D1", "D1">> }
RaceGroupIdLists  == { << >>, <<"G1">> }

\* api_policy_assignments up to the loops: Policy.objects.get and the DELETE
\* of the policy's rows.
api_policy_assignments_delete ==
    /\ \E w \in Workers, policy_id \in PolicyIdInputs,
          device_ids \in RaceDeviceIdLists, group_ids \in RaceGroupIdLists :
          /\ Takes(w)
          /\ IF policy_id \notin PolicyIds
             THEN /\ api_response' =
                        ApiResponse("api_policy_assignments", None, None, 400)
                  /\ UNCHANGED <<assignments, assignment_requests>>
             ELSE /\ assignments' = { a \in assignments : a.policy # policy_id }
                  /\ assignment_requests' =
                        [assignment_requests EXCEPT
                            ![w] = Request("api_policy_assignments", policy_id,
                                           Targets(device_ids, group_ids), TRUE)]
                  /\ UNCHANGED api_response
    /\ policy_response' = NoResponse
    /\ UNCHANGED <<policies, group_devices>>

\* api_policy_assignments, one turn of its loops: the INSERT of the next
\* target, the answer 400 when it raises, the answer 200 after the last one.
api_policy_assignments_create ==
    /\ \E w \in Workers :
          LET request == assignment_requests[w] IN
          /\ request.view = "api_policy_assignments"
          /\ IF request.targets = << >>
             THEN /\ api_response' =
                        ApiResponse("api_policy_assignments", None, None, 200)
                  /\ assignment_requests' = [assignment_requests EXCEPT ![w] = Idle]
                  /\ UNCHANGED assignments
             ELSE LET row == NewRow(assignments, request.policy,
                                    Head(request.targets), TRUE) IN
                  IF ~Exists(Head(request.targets)) \/ ~UniqueIn(assignments, row)
                  THEN /\ api_response' =
                             ApiResponse("api_policy_assignments", None, None, 400)
                       /\ assignment_requests' =
                             [assignment_requests EXCEPT ![w] = Idle]
                       /\ UNCHANGED assignments
                  ELSE /\ assignments' = assignments \cup {row}
                       /\ assignment_requests' =
                             [assignment_requests EXCEPT
                                 ![w].targets = Tail(request.targets)]
                       /\ UNCHANGED api_response
    /\ policy_response' = NoResponse
    /\ UNCHANGED <<policies, group_devices>>

\* C22: there is at most one active assignment for each (policy, device) pair
\* and for each (policy, device-group) pair, whatever the interleaving of
\* creations and dashboard replacements.
C22_OneActiveAssignmentPerTarget ==
    \A a, b \in assignments :
        (a # b /\ a.is_active /\ b.is_active /\ a.policy = b.policy)
        => /\ (a.device = None \/ a.device # b.device)
           /\ (a.device_group = None \/ a.device_group # b.device_group)

\* Witness of C22: two creations of the same assignment raced past the
\* validator and the second INSERT was refused; the table holds the policy's
\* assignments to D1 and to G1.
C22_Witness ==
    /\ api_response = ApiResponse("PolicyAssignmentListCreateView", None, None, 500)
    /\ \E a \in assignments : a.policy = 1 /\ a.device = "D1" /\ a.is_active
    /\ \E a \in assignments : a.policy = 1 /\ a.device_group = "G1" /\ a.is_active
    /\ \E w \in Workers : assignment_requests[w] = Idle

\* the store of SpecAssign: the global policy of the scenario, no rows
AssignInit ==
    /\ policies = <<ScenarioP0>>
    /\ assignments = {}
    /\ group_devices = [g \in Groups |-> IF g = "G1" THEN {"D1"} ELSE {"D1", "D2"}]
    /\ policy_response = NoResponse
    /\ assignment_requests = [w \in Workers |-> Idle]

AssignNext ==
    \/ PolicyAssignmentCreate_is_valid
    \/ PolicyAssignmentCreate_save
    \/ api_policy_assignments_delete
    \/ api_policy_assignments_create

\* ------------------------------------------------------------------------
\* Lockout guard (specification section 4.5; the repository's Python sources
\* declare only the policy fields and the UnlockAttempt record)
\* ------------------------------------------------------------------------

NoAttempt == [device |-> None, credentials_ok |-> FALSE, outcome |-> None]

\* the effective policies the resolver may return for a device
EffectivePolicies(d) ==
    { Response(d, all_policies(dev, grp, glob)).effective_policy :
        dev \in OrderByPriority(device_policies(d), AssignmentPriority),
        grp \in OrderByPriority(group_policies(d), AssignmentPriority),
        glob \in OrderByPriority(global_policies, PolicyPriority) }

\* maxUnlockAttempts and lockoutDurationMinutes of an effective policy; the
\* conservative defaults (3 attempts, 15 minutes) when there is none
MaxUnlockAttempts(p) ==
    IF p = NoPolicy THEN 3 ELSE policies[p].max_unlock_attempts
LockoutDurationMinutes(p) ==
    IF p = NoPolicy THEN 15 ELSE policies[p].lockout_duration_minutes

\* a plausible slip: the lockout still holds at the minute it expires
InLockoutInclusive(d) ==
    lockout_expiry[d] # NoTime /\ now <= lockout_expiry[d]

\* "device is currently in lockout (now < lockout-expiry)"
InLockout(d) ==
    lockout_expiry[d] # NoTime /\ now < lockout_expiry[d]

\* a plausible slip: a success leaves the counter as it is
FailedAttemptsAfterSuccessKept(d) == failed_attempts

\* "On success, reset counter to 0"
FailedAttemptsAfterSuccess(d) == [failed_attempts EXCEPT ![d] = 0]

\* One unlock attempt on a device, with correct or wrong credentials.
UnlockAttempt ==
    \E d \in Devices, credentials_ok \in BOOLEAN : \E p \in EffectivePolicies(d) :
        /\ Len(unlock_attempts) < MaxAttempts
        /\ IF InLockout(d)
           THEN /\ unlock_attempt' = [device |-> d, credentials_ok |-> credentials_ok,
                                      outcome |-> "LockedOut"]
                /\ UNCHANGED <<failed_attempts, lockout_expiry>>
           ELSE IF credentials_ok
           THEN /\ unlock_attempt' = [device |-> d, credentials_ok |-> TRUE,
                                      outcome |-> "success"]
                /\ failed_attempts' = FailedAttemptsAfterSuccess(d)
                /\ lockout_expiry' = [lockout_expiry EXCEPT ![d] = NoTime]
           ELSE /\ unlock_attempt' = [device |-> d, credentials_ok |-> FALSE,
                                      outcome |-> "failed"]
                /\ IF failed_attempts[d] + 1 = MaxUnlockAttempts(p)
                   THEN /\ failed_attempts' = [failed_attempts EXCEPT ![d] = 0]
                        /\ lockout_expiry' =
                              [lockout_expiry EXCEPT
                                  ![d] = now + LockoutDurationMinutes(p)]
                   ELSE /\ failed_attempts' =
                              [failed_attempts EXCEPT ![d] = failed_attempts[d] + 1]
                        /\ UNCHANGED lockout_expiry
        /\ unlock_attempts' = Append(unlock_attempts, unlock_attempt')
        /\ UNCHANGED <<policy_vars, presence_vars, action_vars, heartbeat_vars, registry_vars>>

\* a step of SpecLockout that is an unlock attempt on device d
IsAttemptOn(d) == now' = now /\ unlock_attempt'.device = d

\* the attempt of this step trips the lockout of d
Trips(d) == lockout_expiry'[d] # NoTime /\ lockout_expiry'[d] # lockout_expiry[d]

\* C6: an unlock attempt is rejected with LockedOut, whatever its credentials,
\* exactly while now < lockout-expiry; the lockout is tripped exactly by the
\* failed attempt that is the maxUnlockAttempts-th in a row, and expires
\* lockoutDurationMinutes after it (the 3rd and 15 minutes with the defaults).
C6_LockedOutUntilExpiry ==
    [][\A d \in Devices :
          IsAttemptOn(d) =>
            /\ (unlock_attempt'.outcome = "LockedOut")
                  <=> (lockout_expiry[d] # NoTime /\ now < lockout_expiry[d])
            /\ Trips(d) <=>
                  (/\ unlock_attempt'.outcome = "failed"
                   /\ \E p \in EffectivePolicies(d) :
                         /\ failed_attempts[d] + 1 = MaxUnlockAttempts(p)
                         /\ lockout_expiry'[d] = now + LockoutDurationMinutes(p))
            /\ (Trips(d) /\ policies \in {<< >>, <<Policy("global", 1, TRUE, 1)>>})
                  => (failed_attempts[d] = 2 /\ lockout_expiry'[d] = now + 15)]_vars

\* Witness of C6: D1 was locked out at minute 0 by the third failure under the
\* defaults; at minute 10 an attempt with correct credentials is rejected.
C6_Witness ==
    /\ policies = << >>
    /\ lockout_expiry["D1"] = 15
    /\ now = 10
    /\ unlock_attempt = [device |-> "D1", credentials_ok |-> TRUE,
                         outcome |-> "LockedOut"]

\* the outcomes of the attempts on device d, oldest first
OutcomesOn(d) ==
    LET l == SelectSeq(unlock_attempts, LAMBDA r : r.device = d)
    IN  [i \in DOMAIN l |-> l[i].outcome]

\* the number of failed attempts at the end of a list of outcomes
RECURSIVE TrailingFailed(_)
TrailingFailed(l) ==
    IF l = << >> THEN 0
    ELSE IF l[Len(l)] # "failed" THEN 0
    ELSE 1 + TrailingFailed(SubSeq(l, 1, Len(l) - 1))

\* C13: the counter counts consecutive failures only.  After every attempt on
\* a device the counter is the number of failures in a row at the end of the
\* device's attempts, modulo maxUnlockAttempts; an attempt with correct
\* credentials outside lockout, in particular after a lockout has expired,
\* succeeds, leaves the counter at 0 and clears lockout-expiry; and with
\* maxUnlockAttempts = 3 the attempts fail, fail, success, fail, fail leave
\* the device out of lockout with the counter at 2.
C13_ConsecutiveFailuresOnly ==
    [][\A d \in Devices :
          IsAttemptOn(d) =>
            /\ \E p \in EffectivePolicies(d) :
                  failed_attempts'[d] =
                      TrailingFailed(OutcomesOn(d)') % MaxUnlockAttempts(p)
            /\ (unlock_attempt'.credentials_ok
                    /\ ~(lockout_expiry[d] # NoTime /\ now < lockout_expiry[d]))
                  => (/\ unlock_attempt'.outcome = "success"
                      /\ failed_attempts'[d] = 0
                      /\ lockout_expiry'[d] = NoTime)
            /\ unlock_attempt'.outcome = "success"
                  => (failed_attempts'[d] = 0 /\ lockout_expiry'[d] = NoTime)
            /\ (/\ \E p \in EffectivePolicies(d) : MaxUnlockAttempts(p) = 3
                 /\ OutcomesOn(d)' =
                       <<"failed", "failed", "success", "failed", "failed">>)
                  => (lockout_expiry'[d] = NoTime /\ failed_attempts'[d] = 2)]_vars

\* Witness of C13: under the defaults D1 has seen fail, fail, success, fail,
\* fail and is not locked out, the counter at 2.
C13_Witness ==
    /\ policies = << >>
    /\ OutcomesOn("D1") = <<"failed", "failed", "success", "failed", "failed">>
    /\ lockout_expiry["D1"] = NoTime
    /\ failed_attempts["D1"] = 2

\* the clock of the lockout guard, in steps of 5 minutes: an attempt comes
\* before, at or after the minute a lockout of 5 or 15 minutes expires
LockoutTick ==
    /\ now < MaxLockoutTime
    /\ now' = now + 5
    /\ UNCHANGED <<devices, policy_vars, action_vars, lockout_vars, heartbeat_vars, registry_vars>>

LockoutInit ==
    /\ failed_attempts = [d \in Devices |-> 0]
    /\ lockout_expiry = [d \in Devices |-> NoTime]
    /\ unlock_attempt = NoAttempt
    /\ unlock_attempts = << >>

\* the policy stores of SpecLockout: no policy (the defaults apply), a global
\* policy with the field defaults (3 attempts, 15 minutes), a global policy
\* with 2 attempts and 5 minutes
LockoutPolicyStores ==
    { << >>,
      <<Policy("global", 1, TRUE, 1)>>,
      <<[Policy("global", 1, TRUE, 1) EXCEPT !.max_unlock_attempts = 2,
                                             !.lockout_duration_minutes = 5]>> }

LockoutNext ==
    \/ UnlockAttempt
    \/ LockoutTick

PolicyInit ==
    /\ policies = << >>
    /\ assignments = {}
    /\ group_devices = [g \in Groups |-> IF g = "G1" THEN {"D1"} ELSE {"D1", "D2"}]
    /\ policy_response = NoResponse
    /\ assignment_requests = [w \in Workers |-> Idle]

\* the store of SpecActivation: the last store of the scenario
ActivationInit ==
    /\ policies = <<ScenarioP0, ScenarioP1, ScenarioP2>>
    /\ assignments = {PolicyAssignment(2, None, "G1", TRUE),
                      PolicyAssignment(3, "D1", None, TRUE)}
    /\ group_devices = [g \in Groups |-> IF g = "G1" THEN {"D1"} ELSE {"D1", "D2"}]
    /\ policy_response = NoResponse
    /\ assignment_requests = [w \in Workers |-> Idle]

ActivationNext ==
    \/ PolicyUpdate
    \/ PolicyDelete
    \/ PolicyAssignmentUpdate
    \/ PolicyAssignmentDelete
    \/ device_policy

ResolveNext ==
    \/ PolicyAssignmentCreate
    \/ PolicyAssignmentUpdate
    \/ PolicyAssignmentDelete
    \/ PolicyUpdate
    \/ device_policy

PolicyNext ==
    \/ PolicyCreate
    \/ PolicyAssignmentCreate
    \/ PolicyAssignmentDelete
    \/ device_policy

Init == PolicyInit /\ DeviceInit /\ ActionInit /\ LockoutInit

SpecPolicy ==
    Init /\ [][PolicyNext /\ UNCHANGED <<assignment_requests, presence_vars, action_vars, lockout_vars, heartbeat_vars, registry_vars>>]_vars

InitActivation == ActivationInit /\ DeviceInit /\ ActionInit /\ LockoutInit

SpecActivation ==
    InitActivation
    /\ [][ActivationNext /\ UNCHANGED <<assignment_requests, presence_vars, action_vars, lockout_vars, heartbeat_vars, registry_vars>>]_vars

SpecNumeric ==
    Init /\ [][NumericNext /\ UNCHANGED <<assignment_requests, presence_vars, actions, lockout_vars, heartbeat_vars, registry_vars>>]_vars

InitReplace == ReplaceInit /\ DeviceInit /\ ActionInit /\ LockoutInit

SpecReplace ==
    InitReplace
    /\ [][ReplaceNext /\ UNCHANGED <<presence_vars, actions, lockout_vars, heartbeat_vars, registry_vars>>]_vars

InitAssign == AssignInit /\ DeviceInit /\ ActionInit /\ LockoutInit

SpecAssign ==
    InitAssign
    /\ [][AssignNext /\ UNCHANGED <<presence_vars, actions, lockout_vars, heartbeat_vars, registry_vars>>]_vars

SpecRegister ==
    Init /\ [][RegisterNext /\ UNCHANGED <<policy_vars, presence_vars, actions, lockout_vars, heartbeat_vars>>]_vars

SpecResolve ==
    InitReplace
    /\ [][ResolveNext /\ UNCHANGED <<assignment_requests, presence_vars, action_vars, lockout_vars, heartbeat_vars, registry_vars>>]_vars

SpecFrame == Init /\ [][FrameNext]_vars

SpecPresence == Init /\ [][PresenceNext]_vars

SpecHeartbeat == Init /\ [][HeartbeatNext]_vars

SpecAction == Init /\ [][ActionNext]_vars

InitLockout ==
    /\ policies \in LockoutPolicyStores
    /\ assignments = {}
    /\ group_devices = [g \in Groups |-> IF g = "G1" THEN {"D1"} ELSE {"D1", "D2"}]
    /\ policy_response = NoResponse
    /\ assignment_requests = [w \in Workers |-> Idle]
    /\ DeviceInit /\ ActionInit /\ LockoutInit

SpecLockout == InitLockout /\ [][LockoutNext]_vars

SpecRequest == Init /\ [][RequestNext]_vars

SpecCreate == Init /\ [][CreateNext]_vars

\* time passes; nothing in the program is scheduled to move an action
LiveAction ==
    Init /\ [][ActionNext]_vars
         /\ WF_vars(Tick(MaxActionTime) /\ UNCHANGED <<policy_vars, action_vars, lockout_vars, heartbeat_vars, registry_vars>>)

====
